---------------------------- MODULE Spec2Model ----------------------------
(***************************************************************************)
(* Model of the Nyaa equation compiler's AST node hierarchy                *)
(* (lib/include/NyaaNodes.h, lib/src/NyaaNodes.cc): node construction with *)
(* its type checks, getType, and genCode, the emission of                  *)
(* CodeAndSourceLocation entries onto the code stack.                      *)
(***************************************************************************)
EXTENDS Integers, Sequences, FiniteSets, TLC

(***************************************************************************)
(* Bounds of the model.                                                    *)
(***************************************************************************)
\* Largest number of tree nodes held by the parser at any time.
MaxNodes == 3
\* Largest number of arguments of a function call.
MaxArgs == 2

(***************************************************************************)
(* Value domains the constructors' arguments are drawn from.               *)
(***************************************************************************)
BooleanValues == {TRUE, FALSE}
FloatValues == {1, 2}
StringValues == {"unknown"}
AttribNames == {"name"}
Functions == {"LN"}

\* AbstractNode(-1): the location of compiler generated conversion nodes and
\* of the operand entries pushed by FuncCallNode and IdentNode.
NoSourceLocation == -1

(***************************************************************************)
(* enum class NodeType (NyaaFunction.h).                                   *)
(***************************************************************************)
NodeType == {"BOOLEAN_NODE", "INT_NODE", "FLOAT_NODE", "STRING_NODE", "NULL_NODE"}

\* The four types a value can have; NULL_NODE is the "no type" sentinel.
ValueTypes == NodeType \ {"NULL_NODE"}

(***************************************************************************)
(* class Token and the namespace-scope token constants (NyaaToken.h).      *)
(***************************************************************************)
Token(token_type, string_rep, op_type) ==
    [token_type_ |-> token_type, string_rep_ |-> string_rep, op_type_ |-> op_type]

NO_STRING_REP == "?"

Tokens == {
    Token("STRING_CONSTANT", NO_STRING_REP, "NONE"),
    Token("FLOAT_CONSTANT", NO_STRING_REP, "NONE"),
    Token("BOOLEAN_CONSTANT", NO_STRING_REP, "NONE"),
    Token("IDENTIFIER", NO_STRING_REP, "NONE"),
    Token("OPEN_BRACE", "{", "NONE"),
    Token("CLOSE_BRACE", "}", "NONE"),
    Token("OPEN_PAREN", "(", "NONE"),
    Token("CLOSE_PAREN", ")", "NONE"),
    Token("COLON", ":", "NONE"),
    Token("CARET", "^", "ARITH_OP"),
    Token("PLUS", "+", "ARITH_OP"),
    Token("MINUS", "-", "ARITH_OP"),
    Token("DIV", "/", "ARITH_OP"),
    Token("MUL", "*", "ARITH_OP"),
    Token("EQUAL", "=", "COMP_OP"),
    Token("NOT_EQUAL", "<>", "COMP_OP"),
    Token("GREATER_THAN", ">", "COMP_OP"),
    Token("LESS_THAN", "<", "COMP_OP"),
    Token("GREATER_OR_EQUAL", ">=", "COMP_OP"),
    Token("LESS_OR_EQUAL", "<=", "COMP_OP"),
    Token("DOLLAR", "$", "NONE"),
    Token("COMMA", ",", "NONE"),
    Token("AMPERSAND", "&", "NONE"),
    Token("EOS", NO_STRING_REP, "NONE"),
    Token("ERROR", NO_STRING_REP, "NONE") }

getTokenType(token) == token.token_type_
isCompOp(token) == token.op_type_ = "COMP_OP"
isArithOp(token) == token.op_type_ = "ARITH_OP"
isStringOp(token) == token.op_type_ = "STRING_OP"

(***************************************************************************)
(* Tree nodes.  A node is a record holding its class in "kind" and the     *)
(* data members of that class; a child is the record of the child node,    *)
(* nullptr is the record below.                                            *)
(***************************************************************************)
nullptr == [kind |-> "nullptr"]

BooleanConstantNode(source_location, value) ==
    [kind |-> "BooleanConstantNode", source_location_ |-> source_location, value_ |-> value]

FloatConstantNode(source_location, value) ==
    [kind |-> "FloatConstantNode", source_location_ |-> source_location, value_ |-> value]

StringConstantNode(source_location, value) ==
    [kind |-> "StringConstantNode", source_location_ |-> source_location, value_ |-> value]

\* The members a constructed BinOpNode holds.
BinOpNode(source_location, operator_type, lhs, rhs) ==
    [kind |-> "BinOpNode", source_location_ |-> source_location,
     operator_ |-> operator_type, lhs_ |-> lhs, rhs_ |-> rhs]

UnaryOpNode(source_location, operator, operand) ==
    [kind |-> "UnaryOpNode", source_location_ |-> source_location,
     operator_ |-> operator, operand_ |-> operand]

FuncCallNode(source_location, func, return_type, args) ==
    [kind |-> "FuncCallNode", source_location_ |-> source_location,
     func_ |-> func, return_type_ |-> return_type, args_ |-> args]

IdentNode(source_location, attrib_name, default_value, type) ==
    [kind |-> "IdentNode", source_location_ |-> source_location,
     attrib_name_ |-> attrib_name, default_value_ |-> default_value, type_ |-> type]

SConvNode(convertee) ==
    [kind |-> "SConvNode", source_location_ |-> NoSourceLocation, convertee_ |-> convertee]

FConvNode(convertee) ==
    [kind |-> "FConvNode", source_location_ |-> NoSourceLocation, convertee_ |-> convertee]

getSourceLocation(n) == n.source_location_

(***************************************************************************)
(* TreeNode::getType, one branch per node class.                           *)
(***************************************************************************)
RECURSIVE getType(_)

BinOpNode_getType_NoComparison(n) == getType(n.lhs_)

BinOpNode_getType(n) ==
    IF isCompOp(n.operator_) THEN "BOOLEAN_NODE" ELSE getType(n.lhs_)

UnaryOpNode_getType(n) == getType(n.operand_)

SConvNode_getType(n) == "STRING_NODE"

FConvNode_getType(n) == "FLOAT_NODE"

getType(n) ==
    CASE n.kind = "BinOpNode" -> BinOpNode_getType(n)
      [] n.kind = "BooleanConstantNode" -> "BOOLEAN_NODE"
      [] n.kind = "FloatConstantNode" -> "FLOAT_NODE"
      [] n.kind = "StringConstantNode" -> "STRING_NODE"
      [] n.kind = "FuncCallNode" -> n.return_type_
      [] n.kind = "IdentNode" -> n.type_
      [] n.kind = "SConvNode" -> SConvNode_getType(n)
      [] n.kind = "UnaryOpNode" -> UnaryOpNode_getType(n)
      [] n.kind = "FConvNode" -> FConvNode_getType(n)

(***************************************************************************)
(* Constructors: the exception a constructor call throws, "none" when it   *)
(* returns.  Conditions are tested in the order of the source.             *)
(***************************************************************************)
BinOpNode_ctor_NoTypeCheck(lhs, rhs) ==
    IF lhs = nullptr THEN "invalid_argument"
    ELSE IF rhs = nullptr THEN "invalid_argument"
    ELSE "none"

BinOpNode_ctor(lhs, rhs) ==
    IF lhs = nullptr THEN "invalid_argument"
    ELSE IF rhs = nullptr THEN "invalid_argument"
    ELSE IF getType(lhs) # getType(rhs) THEN "invalid_argument"
    ELSE "none"

UnaryOpNode_ctor(operand) ==
    IF operand = nullptr THEN "IllegalArgumentException" ELSE "none"

\* FuncCallNode::FuncCallNode is declared in NyaaNodes.h and defined nowhere in
\* the sources at hand.  The function registry has validated arity and
\* argument types and resolved the return type before the node is built, so
\* the constructor gets one of the four value types and checks nothing.
FuncCallNode_ctor(return_type, args) == "none"

IdentNode_ctor_NoDefaultCheck(default_value, type) ==
    IF type = "NULL_NODE" THEN "invalid_argument" ELSE "none"

IdentNode_ctor(default_value, type) ==
    IF type = "NULL_NODE" THEN "invalid_argument"
    ELSE IF default_value # nullptr /\ getType(default_value) # type THEN "invalid_argument"
    ELSE "none"

SConvNode_ctor_AcceptsString(convertee) ==
    IF convertee = nullptr THEN "invalid_argument"
    ELSE IF getType(convertee) \notin {"FLOAT_NODE", "INT_NODE", "BOOLEAN_NODE", "STRING_NODE"}
         THEN "invalid_argument"
    ELSE "none"

SConvNode_ctor(convertee) ==
    IF convertee = nullptr THEN "invalid_argument"
    ELSE IF /\ getType(convertee) # "FLOAT_NODE"
            /\ getType(convertee) # "INT_NODE"
            /\ getType(convertee) # "BOOLEAN_NODE" THEN "invalid_argument"
    ELSE "none"

FConvNode_ctor(convertee) ==
    IF convertee = nullptr THEN "IllegalArgumentException"
    ELSE IF /\ getType(convertee) # "INT_NODE"
            /\ getType(convertee) # "BOOLEAN_NODE"
            /\ getType(convertee) # "STRING_NODE" THEN "IllegalArgumentException"
    ELSE "none"

(***************************************************************************)
(* class CodeAndSourceLocation: one entry of the code stack.  The code is  *)
(* an Instruction or an operand (a constant, an argument count, a function *)
(* reference, an attribute name, a default value).                         *)
(***************************************************************************)
CodeAndSourceLocation(code, source_location) ==
    [instruction_ |-> code, source_location_ |-> source_location]

\* enum class Instruction (NyaaInstructions.h).
Instructions == {
    "FADD", "FSUB", "FMUL", "FDIV", "FPOW", "SCONCAT",
    "BEQLF", "BNEQLF", "BGTF", "BLTF", "BGTEF", "BLTEF",
    "BEQLS", "BNEQLS", "BGTS", "BLTS", "BGTES", "BLTES",
    "BGTB", "BLTB", "BGTEB", "BLTEB", "BEQLB", "BNEQLB",
    "BEQLI", "BNEQLI", "BGTI", "BLTI", "BGTEI", "BLTEI",
    "CALL", "FUMINUS", "FUPLUS", "AREF", "AREF2",
    "FCONVI", "FCONVB", "FCONVS", "SCONVF", "SCONVI", "SCONVB" }

Instruction(name) == [opcode |-> name]
BooleanOperand(value) == [boolean |-> value]
FloatOperand(value) == [float |-> value]
StringOperand(value) == [string |-> value]
ArgCountOperand(count) == [arg_count |-> count]
FunctionOperand(func) == [function |-> func]
NodeOperand(node) == [node |-> node]

\* std::stack::push / emplace: the new entry becomes the top (the last one).
push(code_stack, entry) == Append(code_stack, entry)

\* The outcome of a genCode call: the exception that left it ("none" when it
\* returned) and the code stack as the call left it.
Returned(code_stack) == [threw |-> "none", code_stack |-> code_stack]
Threw(exception, code_stack) == [threw |-> exception, code_stack |-> code_stack]

(***************************************************************************)
(* BinOpNode::determineOpCode (NyaaNodes.cc).  The throw after the if/else *)
(* chain cannot be reached: every type that is not FLOAT, STRING or        *)
(* BOOLEAN gets the int opcode.                                            *)
(***************************************************************************)
determineOpCode_StringFirst(n, float_op_code, string_op_code, boolean_op_code, int_op_code) ==
    LET operand_type == getType(n.lhs_) IN
    IF operand_type = "STRING_NODE" THEN float_op_code
    ELSE IF operand_type = "FLOAT_NODE" THEN string_op_code
    ELSE IF operand_type = "BOOLEAN_NODE" THEN boolean_op_code
    ELSE int_op_code

determineOpCode(n, float_op_code, string_op_code, boolean_op_code, int_op_code) ==
    LET operand_type == getType(n.lhs_) IN
    IF operand_type = "FLOAT_NODE" THEN float_op_code
    ELSE IF operand_type = "STRING_NODE" THEN string_op_code
    ELSE IF operand_type = "BOOLEAN_NODE" THEN boolean_op_code
    ELSE int_op_code

(***************************************************************************)
(* TreeNode::genCode, one operator per node class.  genCode(n, code_stack) *)
(* is the outcome of n->genCode(&code_stack).                              *)
(***************************************************************************)
RECURSIVE genCode(_, _)
RECURSIVE genArgs(_, _, _)

\* The switch of BinOpNode::genCode: the entry pushed for the operator, or
\* the default branch's runtime_error.
BinOpNode_emitOperator(n, code_stack) ==
    LET type == getTokenType(n.operator_)
        loc == getSourceLocation(n)
        emplace(code) == Returned(push(code_stack, CodeAndSourceLocation(Instruction(code), loc)))
    IN CASE type = "CARET" -> emplace("FPOW")
         [] type = "PLUS" -> emplace("FADD")
         [] type = "MINUS" -> emplace("FSUB")
         [] type = "DIV" -> emplace("FDIV")
         [] type = "MUL" -> emplace("FMUL")
         [] type = "EQUAL" -> emplace(determineOpCode(n, "BEQLF", "BEQLS", "BEQLB", "BEQLI"))
         [] type = "NOT_EQUAL" -> emplace(determineOpCode(n, "BNEQLF", "BNEQLS", "BNEQLB", "BNEQLI"))
         [] type = "GREATER_THAN" -> emplace(determineOpCode(n, "BGTF", "BGTS", "BGTB", "BGTI"))
         [] type = "LESS_THAN" -> emplace(determineOpCode(n, "BLTF", "BLTS", "BLTB", "BLTI"))
         [] type = "GREATER_OR_EQUAL" -> emplace(determineOpCode(n, "BGTEF", "BGTES", "BGTEB", "BGTEI"))
         [] type = "LESS_OR_EQUAL" -> emplace(determineOpCode(n, "BLTEF", "BLTES", "BLTEB", "BLTEI"))
         [] type = "AMPERSAND" -> emplace("SCONCAT")
         [] OTHER -> Threw("runtime_error", code_stack)

BinOpNode_genCode_LhsFirst(n, code_stack) ==
    LET lhs == genCode(n.lhs_, code_stack) IN
    IF lhs.threw # "none" THEN lhs
    ELSE LET rhs == genCode(n.rhs_, lhs.code_stack) IN
         IF rhs.threw # "none" THEN rhs
         ELSE BinOpNode_emitOperator(n, rhs.code_stack)

BinOpNode_genCode(n, code_stack) ==
    LET rhs == genCode(n.rhs_, code_stack) IN
    IF rhs.threw # "none" THEN rhs
    ELSE LET lhs == genCode(n.lhs_, rhs.code_stack) IN
         IF lhs.threw # "none" THEN lhs
         ELSE BinOpNode_emitOperator(n, lhs.code_stack)

BooleanConstantNode_genCode(n, code_stack) ==
    Returned(push(code_stack,
                  CodeAndSourceLocation(BooleanOperand(n.value_), getSourceLocation(n))))

FloatConstantNode_genCode(n, code_stack) ==
    Returned(push(code_stack,
                  CodeAndSourceLocation(FloatOperand(n.value_), getSourceLocation(n))))

StringConstantNode_genCode(n, code_stack) ==
    Returned(push(code_stack,
                  CodeAndSourceLocation(StringOperand(n.value_), getSourceLocation(n))))

RECURSIVE genArgs_FirstToLast(_, _, _)
genArgs_FirstToLast(args, i, code_stack) ==
    IF i < 1 THEN Returned(code_stack)
    ELSE LET arg == genCode(args[Len(args) - i + 1], code_stack) IN
         IF arg.threw # "none" THEN arg
         ELSE genArgs_FirstToLast(args, i - 1, arg.code_stack)

\* The loop of FuncCallNode::genCode: args_[i], args_[i - 1], ..., args_[0]
\* (the source counts from 0, a sequence from 1: i here is the source's i + 1).
genArgs(args, i, code_stack) ==
    IF i < 1 THEN Returned(code_stack)
    ELSE LET arg == genCode(args[i], code_stack) IN
         IF arg.threw # "none" THEN arg
         ELSE genArgs(args, i - 1, arg.code_stack)

\* FuncCallNode::genCode without the push of the argument count.
FuncCallNode_genCode_NoArgCount(n, code_stack) ==
    LET args == genArgs(n.args_, Len(n.args_), code_stack) IN
    IF args.threw # "none" THEN args
    ELSE LET func == push(args.code_stack,
                          CodeAndSourceLocation(FunctionOperand(n.func_), NoSourceLocation))
         IN Returned(push(func, CodeAndSourceLocation(Instruction("CALL"), getSourceLocation(n))))

FuncCallNode_genCode(n, code_stack) ==
    LET args == genArgs(n.args_, Len(n.args_), code_stack) IN
    IF args.threw # "none" THEN args
    ELSE LET count == push(args.code_stack,
                           CodeAndSourceLocation(ArgCountOperand(Len(n.args_)), NoSourceLocation))
             func == push(count, CodeAndSourceLocation(FunctionOperand(n.func_), NoSourceLocation))
         IN Returned(push(func, CodeAndSourceLocation(Instruction("CALL"), getSourceLocation(n))))

IdentNode_genCode_NoLocation(n, code_stack) ==
    LET default == IF n.default_value_ # nullptr
                   THEN push(code_stack,
                             CodeAndSourceLocation(NodeOperand(n.default_value_), NoSourceLocation))
                   ELSE code_stack
        name == push(default, CodeAndSourceLocation(StringOperand(n.attrib_name_), NoSourceLocation))
    IN Returned(push(name, CodeAndSourceLocation(
                               Instruction(IF n.default_value_ = nullptr THEN "AREF" ELSE "AREF2"),
                               NoSourceLocation)))

IdentNode_genCode(n, code_stack) ==
    LET default == IF n.default_value_ # nullptr
                   THEN push(code_stack,
                             CodeAndSourceLocation(NodeOperand(n.default_value_), NoSourceLocation))
                   ELSE code_stack
        name == push(default, CodeAndSourceLocation(StringOperand(n.attrib_name_), NoSourceLocation))
    IN Returned(push(name, CodeAndSourceLocation(
                               Instruction(IF n.default_value_ = nullptr THEN "AREF" ELSE "AREF2"),
                               getSourceLocation(n))))

SConvNode_genCode(n, code_stack) ==
    LET convertee == genCode(n.convertee_, code_stack) IN
    IF convertee.threw # "none" THEN convertee
    ELSE LET type == getType(n.convertee_)
             pushed(code) == Returned(push(convertee.code_stack,
                                 CodeAndSourceLocation(Instruction(code), getSourceLocation(n))))
         IN IF type = "FLOAT_NODE" THEN pushed("SCONVF")
            ELSE IF type = "INT_NODE" THEN pushed("SCONVI")
            ELSE IF type = "BOOLEAN_NODE" THEN pushed("SCONVB")
            ELSE Threw("range_error", convertee.code_stack)

UnaryOpNode_genCode(n, code_stack) ==
    LET operand == genCode(n.operand_, code_stack) IN
    IF operand.threw # "none" THEN operand
    ELSE LET type == getTokenType(n.operator_)
             pushed(code) == Returned(push(operand.code_stack,
                                 CodeAndSourceLocation(Instruction(code), getSourceLocation(n))))
         IN CASE type = "PLUS" -> pushed("FUPLUS")
              [] type = "MINUS" -> pushed("FUMINUS")
              [] OTHER -> Threw("IllegalStateException", operand.code_stack)

FConvNode_genCode(n, code_stack) ==
    LET convertee == genCode(n.convertee_, code_stack) IN
    IF convertee.threw # "none" THEN convertee
    ELSE LET type == getType(n.convertee_)
             pushed(code) == Returned(push(convertee.code_stack,
                                 CodeAndSourceLocation(Instruction(code), getSourceLocation(n))))
         IN IF type = "INT_NODE" THEN pushed("FCONVI")
            ELSE IF type = "BOOLEAN_NODE" THEN pushed("FCONVB")
            ELSE IF type = "STRING_NODE" THEN pushed("FCONVS")
            ELSE Threw("IllegalStateException", convertee.code_stack)

genCode(n, code_stack) ==
    CASE n.kind = "BinOpNode" -> BinOpNode_genCode(n, code_stack)
      [] n.kind = "BooleanConstantNode" -> BooleanConstantNode_genCode(n, code_stack)
      [] n.kind = "FloatConstantNode" -> FloatConstantNode_genCode(n, code_stack)
      [] n.kind = "StringConstantNode" -> StringConstantNode_genCode(n, code_stack)
      [] n.kind = "FuncCallNode" -> FuncCallNode_genCode(n, code_stack)
      [] n.kind = "IdentNode" -> IdentNode_genCode(n, code_stack)
      [] n.kind = "SConvNode" -> SConvNode_genCode(n, code_stack)
      [] n.kind = "UnaryOpNode" -> UnaryOpNode_genCode(n, code_stack)
      [] n.kind = "FConvNode" -> FConvNode_genCode(n, code_stack)

(***************************************************************************)
(* The state: the parser builds nodes bottom-up, keeping the finished      *)
(* subtrees that have no parent yet; a constructor that throws ends the    *)
(* compilation; one genCode call on the finished tree fills the code stack.*)
(***************************************************************************)
VARIABLES
    nodes,       \* the finished subtrees without a parent, oldest first
    location,    \* the source location the next node built from a token gets
    ctor,        \* the last constructor call: class, arguments, exception thrown
    code_stack,  \* std::stack<CodeAndSourceLocation>, bottom first
    gen_threw,   \* the exception that left the genCode call, "none" if it returned
    phase,       \* "parsing", "failed" (a constructor threw) or "generated"
    tokenizer,   \* the Tokenizer object: its data members
    calls        \* the calls made on the Tokenizer so far, oldest first

vars == <<nodes, location, ctor, code_stack, gen_threw, phase, tokenizer, calls>>

\* No Tokenizer object exists while trees are built by hand and compiled.
NoTokenizer == [source_ |-> << >>]

\* The operator tokens handed to the UnaryOpNode constructor: PLUS and MINUS,
\* for which genCode has a case, and the other arithmetic operators, for
\* which it has none.
UnaryOperators == {t \in Tokens : isArithOp(t)}

\* The number of nodes of the tree n.
RECURSIVE TreeSize(_)
RECURSIVE ArgsSize(_, _)
ArgsSize(args, i) == IF i < 1 THEN 0 ELSE TreeSize(args[i]) + ArgsSize(args, i - 1)
TreeSize(n) ==
    CASE n.kind = "nullptr" -> 0
      [] n.kind = "BinOpNode" -> 1 + TreeSize(n.lhs_) + TreeSize(n.rhs_)
      [] n.kind = "UnaryOpNode" -> 1 + TreeSize(n.operand_)
      [] n.kind \in {"SConvNode", "FConvNode"} -> 1 + TreeSize(n.convertee_)
      [] n.kind = "IdentNode" -> 1 + TreeSize(n.default_value_)
      [] n.kind = "FuncCallNode" -> 1 + ArgsSize(n.args_, Len(n.args_))
      [] OTHER -> 1

NodesHeld == ArgsSize(nodes, Len(nodes))

\* The node most recently finished, if any, and the one before it.
Top == IF Len(nodes) >= 1 THEN {nodes[Len(nodes)]} ELSE {}
Second == IF Len(nodes) >= 2 THEN {nodes[Len(nodes) - 1]} ELSE {}

\* nodes without its last k elements.
Without(k) == SubSeq(nodes, 1, Len(nodes) - k)

Init ==
    /\ nodes = << >>
    /\ location = 0
    /\ ctor = [class |-> "none", threw |-> "none"]
    /\ code_stack = << >>
    /\ gen_threw = "none"
    /\ phase = "parsing"
    /\ tokenizer = NoTokenizer
    /\ calls = << >>

\* What the record of a constructor call keeps of an operand: that it is
\* nullptr, or its type.
Operand(n) == IF n = nullptr THEN "nullptr" ELSE getType(n)

\* A constructor is called while the parser is at work and the tree, the new
\* node included, has at most MaxNodes nodes.
CanConstruct == phase = "parsing" /\ NodesHeld + 1 <= MaxNodes

\* A constructor call that returns: the node built takes the last k finished
\* subtrees as its children.  from_token: the node is built from a token of
\* the source and gets that token's offset, which no other node has.
Constructed(call, k, node, from_token) ==
    /\ call.threw = "none"
    /\ ctor' = call
    /\ nodes' = Append(Without(k), node)
    /\ location' = IF from_token THEN location + 1 ELSE location
    /\ UNCHANGED <<code_stack, gen_threw, phase, tokenizer, calls>>

\* A constructor call that throws: no node is built, the exception unwinds
\* the parser, which drops the subtrees it held, and the compilation is over.
Thrown(call) ==
    /\ call.threw # "none"
    /\ ctor' = call
    /\ nodes' = << >>
    /\ phase' = "failed"
    /\ UNCHANGED <<location, code_stack, gen_threw, tokenizer, calls>>

NewBooleanConstantNode ==
    /\ CanConstruct
    /\ \E value \in BooleanValues :
        Constructed([class |-> "BooleanConstantNode", threw |-> "none"], 0,
                    BooleanConstantNode(location, value), TRUE)

NewFloatConstantNode ==
    /\ CanConstruct
    /\ \E value \in FloatValues :
        Constructed([class |-> "FloatConstantNode", threw |-> "none"], 0,
                    FloatConstantNode(location, value), TRUE)

NewStringConstantNode ==
    /\ CanConstruct
    /\ \E value \in StringValues :
        Constructed([class |-> "StringConstantNode", threw |-> "none"], 0,
                    StringConstantNode(location, value), TRUE)

NewBinOpNode ==
    /\ CanConstruct
    /\ \E lhs \in Second \cup {nullptr}, rhs \in Top \cup {nullptr} :
        LET call == [class |-> "BinOpNode", lhs |-> Operand(lhs), rhs |-> Operand(rhs),
                     threw |-> BinOpNode_ctor(lhs, rhs)]
        IN \/ Thrown(call)
           \/ \E operator_type \in Tokens :
                  Constructed(call, 2, BinOpNode(location, operator_type, lhs, rhs), TRUE)

NewUnaryOpNode ==
    /\ CanConstruct
    /\ \E operand \in Top \cup {nullptr} :
        LET call == [class |-> "UnaryOpNode", operand |-> Operand(operand),
                     threw |-> UnaryOpNode_ctor(operand)]
        IN \/ Thrown(call)
           \/ \E operator \in UnaryOperators :
                  Constructed(call, 1, UnaryOpNode(location, operator, operand), TRUE)

NewFuncCallNode ==
    /\ CanConstruct
    /\ \E func \in Functions, return_type \in ValueTypes, k \in 0..MaxArgs :
        /\ k <= Len(nodes)
        /\ LET args == SubSeq(nodes, Len(nodes) - k + 1, Len(nodes)) IN
           Constructed([class |-> "FuncCallNode", args |-> k,
                        threw |-> FuncCallNode_ctor(return_type, args)], k,
                       FuncCallNode(location, func, return_type, args), TRUE)

NewIdentNode ==
    /\ CanConstruct
    /\ \E default_value \in Top \cup {nullptr}, type \in NodeType :
        LET call == [class |-> "IdentNode", default_value |-> Operand(default_value),
                     type |-> type, threw |-> IdentNode_ctor(default_value, type)]
        IN \/ Thrown(call)
           \/ \E attrib_name \in AttribNames :
                  Constructed(call, IF default_value = nullptr THEN 0 ELSE 1,
                              IdentNode(location, attrib_name, default_value, type), TRUE)

NewSConvNode ==
    /\ CanConstruct
    /\ \E convertee \in Top \cup {nullptr} :
        LET call == [class |-> "SConvNode", convertee |-> Operand(convertee),
                     threw |-> SConvNode_ctor(convertee)]
        IN \/ Thrown(call)
           \/ Constructed(call, 1, SConvNode(convertee), FALSE)

NewFConvNode ==
    /\ CanConstruct
    /\ \E convertee \in Top \cup {nullptr} :
        LET call == [class |-> "FConvNode", convertee |-> Operand(convertee),
                     threw |-> FConvNode_ctor(convertee)]
        IN \/ Thrown(call)
           \/ Constructed(call, 1, FConvNode(convertee), FALSE)

\* The single genCode call on the finished tree, with its own code stack.
GenerateCode ==
    /\ phase = "parsing"
    /\ Len(nodes) = 1
    /\ LET result == genCode(nodes[1], code_stack) IN
        /\ code_stack' = result.code_stack
        /\ gen_threw' = result.threw
    /\ phase' = "generated"
    /\ UNCHANGED <<nodes, location, ctor, tokenizer, calls>>

\* The compilation is over (it failed or produced its code): the next one
\* starts from nothing.
NextCompilation ==
    /\ phase \in {"failed", "generated"}
    /\ nodes' = << >>
    /\ location' = 0
    /\ ctor' = [class |-> "none", threw |-> "none"]
    /\ code_stack' = << >>
    /\ gen_threw' = "none"
    /\ phase' = "parsing"
    /\ UNCHANGED <<tokenizer, calls>>

Next ==
    \/ NewBooleanConstantNode
    \/ NewFloatConstantNode
    \/ NewStringConstantNode
    \/ NewBinOpNode
    \/ NewUnaryOpNode
    \/ NewFuncCallNode
    \/ NewIdentNode
    \/ NewSConvNode
    \/ NewFConvNode
    \/ GenerateCode
    \/ NextCompilation

Spec == Init /\ [][Next]_vars

(***************************************************************************)
(* Vocabulary of the properties.                                           *)
(***************************************************************************)
\* The entries n->genCode appends to an empty code stack.
Code(n) == genCode(n, << >>).code_stack

\* Every node was the last finished subtree right after its construction, so
\* a property of the last finished subtree in every reachable state is a
\* property of every node that can be constructed.
LastBuilt == Top

LastEntry(stack) == stack[Len(stack)]
AllButLast(stack) == SubSeq(stack, 1, Len(stack) - 1)
IsInstruction(entry) == \E i \in Instructions : entry.instruction_ = Instruction(i)

BinaryOperators ==
    {"CARET", "PLUS", "MINUS", "DIV", "MUL", "AMPERSAND", "EQUAL", "NOT_EQUAL",
     "GREATER_THAN", "LESS_THAN", "GREATER_OR_EQUAL", "LESS_OR_EQUAL"}
ComparisonOperators ==
    {"EQUAL", "NOT_EQUAL", "GREATER_THAN", "LESS_THAN", "GREATER_OR_EQUAL", "LESS_OR_EQUAL"}
ArithmeticOperators == {"CARET", "PLUS", "MINUS", "DIV", "MUL"}

IsBinOp(n) == n.kind = "BinOpNode"

(***************************************************************************)
(* C1: for every constructed BinOpNode whose operator is one of the twelve *)
(* binary operators, genCode appends to the code stack the entries of the  *)
(* right operand's genCode, then those of the left operand's genCode, then *)
(* exactly one operator instruction, and nothing else.  An exception that  *)
(* leaves an operand's genCode leaves the node's genCode as well, with the *)
(* code stack as the operand left it.                                      *)
(***************************************************************************)
C1_BinOpEmitsRightLeftOperator ==
    \A n \in LastBuilt :
        IsBinOp(n) /\ getTokenType(n.operator_) \in BinaryOperators =>
            LET rhs == genCode(n.rhs_, code_stack)
                lhs == genCode(n.lhs_, rhs.code_stack)
                all == genCode(n, code_stack)
            IN IF rhs.threw # "none" THEN all = rhs
               ELSE IF lhs.threw # "none" THEN all = lhs
               ELSE /\ all.threw = "none"
                    /\ AllButLast(all.code_stack) = code_stack \o Code(n.rhs_) \o Code(n.lhs_)
                    /\ IsInstruction(LastEntry(all.code_stack))
                    /\ phase = "generated" /\ gen_threw = "none" =>
                           AllButLast(code_stack) = Code(n.rhs_) \o Code(n.lhs_)

\* "1 + 2" has been compiled to push 2, push 1, FADD.
C1_Witness ==
    /\ phase = "generated"
    /\ \E n \in LastBuilt : IsBinOp(n) /\ getTokenType(n.operator_) = "PLUS"
    /\ code_stack = << CodeAndSourceLocation(FloatOperand(2), 1),
                       CodeAndSourceLocation(FloatOperand(1), 0),
                       CodeAndSourceLocation(Instruction("FADD"), 2) >>

(***************************************************************************)
(* C2: the BinOpNode constructor throws, and no node is built, exactly     *)
(* when the left operand is null, the right operand is null or the types   *)
(* of the two operands differ; the operands of a node that was built are   *)
(* the ones handed in, of one type, never converted.                       *)
(***************************************************************************)
C2_BinOpConstructorRejects ==
    /\ ctor.class = "BinOpNode" =>
          /\ ctor.threw # "none" <=>
                 ctor.lhs = "nullptr" \/ ctor.rhs = "nullptr" \/ ctor.lhs # ctor.rhs
          /\ ctor.threw # "none" =>
                 ctor.threw = "invalid_argument" /\ phase = "failed" /\ nodes = << >>
    /\ \A n \in LastBuilt :
          IsBinOp(n) =>
              /\ n.lhs_ # nullptr /\ n.rhs_ # nullptr
              /\ getType(n.lhs_) = getType(n.rhs_)
              /\ ctor.class = "BinOpNode" =>
                     ctor.threw = "none" /\ getType(n.lhs_) = ctor.lhs /\ getType(n.rhs_) = ctor.rhs

\* A Float and a String operand have been rejected.
C2_Witness ==
    /\ phase = "failed"
    /\ ctor = [class |-> "BinOpNode", lhs |-> "FLOAT_NODE", rhs |-> "STRING_NODE",
               threw |-> "invalid_argument"]

(***************************************************************************)
(* C3 as stated, for the twelve binary operators alone: the type of a      *)
(* BinOpNode is BOOLEAN if and only if its operator is a comparison.       *)
(***************************************************************************)
C3_Original_BooleanIffComparison ==
    \A n \in LastBuilt :
        IsBinOp(n) /\ getTokenType(n.operator_) \in BinaryOperators =>
            (getType(n) = "BOOLEAN_NODE" <=> isCompOp(n.operator_))

(***************************************************************************)
(* C3 as amended: the type of a BinOpNode is BOOLEAN if its operator is a  *)
(* comparison and the type its operands share otherwise; so for INT, FLOAT *)
(* and STRING operands it is BOOLEAN if and only if the operator is a      *)
(* comparison, and for BOOLEAN operands it is BOOLEAN whatever the         *)
(* operator.                                                               *)
(***************************************************************************)
C3_BinOpType ==
    \A n \in LastBuilt :
        IsBinOp(n) =>
            /\ isCompOp(n.operator_) => getType(n) = "BOOLEAN_NODE"
            /\ ~isCompOp(n.operator_) =>
                   getType(n) = getType(n.lhs_) /\ getType(n) = getType(n.rhs_)
            /\ getType(n.lhs_) # "BOOLEAN_NODE" =>
                   (getType(n) = "BOOLEAN_NODE" <=> isCompOp(n.operator_))
            /\ getType(n.lhs_) = "BOOLEAN_NODE" => getType(n) = "BOOLEAN_NODE"

\* A comparison of two INT operands has been built: its type is BOOLEAN.
C3_Witness ==
    \E n \in LastBuilt :
        /\ IsBinOp(n) /\ getTokenType(n.operator_) = "LESS_THAN"
        /\ getType(n.lhs_) = "INT_NODE" /\ getType(n) = "BOOLEAN_NODE"

(***************************************************************************)
(* C4: for a BinOpNode with a comparison operator, the operator            *)
(* instruction genCode emits is the opcode of that comparison for the type *)
(* of the left operand; the 24 pairs have 24 different opcodes.            *)
(***************************************************************************)
ComparisonName ==
    [t \in ComparisonOperators |->
        CASE t = "EQUAL" -> "BEQL"
          [] t = "NOT_EQUAL" -> "BNEQL"
          [] t = "GREATER_THAN" -> "BGT"
          [] t = "LESS_THAN" -> "BLT"
          [] t = "GREATER_OR_EQUAL" -> "BGTE"
          [] t = "LESS_OR_EQUAL" -> "BLTE"]

TypeSuffix ==
    [t \in ValueTypes |->
        CASE t = "FLOAT_NODE" -> "F"
          [] t = "STRING_NODE" -> "S"
          [] t = "BOOLEAN_NODE" -> "B"
          [] t = "INT_NODE" -> "I"]

ComparisonOpcode(operator, type) == ComparisonName[operator] \o TypeSuffix[type]

C4_ComparisonOpcodeByLeftType ==
    /\ \A n \in LastBuilt :
          IsBinOp(n) /\ getTokenType(n.operator_) \in ComparisonOperators =>
              LET all == genCode(n, code_stack) IN
              all.threw = "none" =>
                  /\ getType(n.lhs_) \in ValueTypes
                  /\ LastEntry(all.code_stack).instruction_ =
                         Instruction(ComparisonOpcode(getTokenType(n.operator_), getType(n.lhs_)))
    /\ Cardinality({ComparisonOpcode(o, t) : o \in ComparisonOperators, t \in ValueTypes}) = 24
    /\ \A o \in ComparisonOperators, t \in ValueTypes : ComparisonOpcode(o, t) \in Instructions

\* "TRUE <> FALSE" has been compiled to two pushes and BNEQLB.
C4_Witness ==
    /\ phase = "generated"
    /\ code_stack = << CodeAndSourceLocation(BooleanOperand(FALSE), 1),
                       CodeAndSourceLocation(BooleanOperand(TRUE), 0),
                       CodeAndSourceLocation(Instruction("BNEQLB"), 2) >>

(***************************************************************************)
(* C5 as stated: a BinOpNode or UnaryOpNode whose operand type is not the  *)
(* one the opcode table lists for its operator (an arithmetic operator or  *)
(* a unary + or - on a non-FLOAT operand, & on a non-STRING operand, a     *)
(* comparison on an operand that has none of the four value types) makes   *)
(* genCode raise an error instead of appending an opcode.                  *)
(***************************************************************************)
OutsideOpcodeTable(n) ==
    \/ /\ IsBinOp(n)
       /\ \/ /\ getTokenType(n.operator_) \in ArithmeticOperators
             /\ getType(n.lhs_) # "FLOAT_NODE"
          \/ /\ getTokenType(n.operator_) = "AMPERSAND"
             /\ getType(n.lhs_) # "STRING_NODE"
          \/ /\ getTokenType(n.operator_) \in ComparisonOperators
             /\ getType(n.lhs_) \notin ValueTypes
    \/ /\ n.kind = "UnaryOpNode"
       /\ getTokenType(n.operator_) \in {"PLUS", "MINUS"}
       /\ getType(n.operand_) # "FLOAT_NODE"

\* The outcome of the genCode calls n->genCode makes on its operands.
OperandsCode(n, stack) ==
    IF IsBinOp(n)
    THEN LET rhs == genCode(n.rhs_, stack) IN
         IF rhs.threw # "none" THEN rhs ELSE genCode(n.lhs_, rhs.code_stack)
    ELSE genCode(n.operand_, stack)

C5_Original_OutsideTableRaises ==
    \A n \in LastBuilt :
        OutsideOpcodeTable(n) /\ OperandsCode(n, code_stack).threw = "none" =>
            /\ genCode(n, code_stack).threw # "none"
            /\ genCode(n, code_stack).code_stack = OperandsCode(n, code_stack).code_stack

(***************************************************************************)
(* C6: for a FuncCallNode with the arguments a1 .. ak, genCode appends the *)
(* code of ak, then of a(k-1), ..., then of a1, then an entry with the     *)
(* argument count k, then an entry with the function, then CALL.  An       *)
(* exception that leaves an argument's genCode leaves the call's genCode   *)
(* as well, before any later entry is appended.                            *)
(***************************************************************************)
\* The code of args[i], args[i - 1], ..., args[j], in this order.
RECURSIVE ArgsCode(_, _, _)
ArgsCode(args, i, j) ==
    IF i < j THEN << >> ELSE Code(args[i]) \o ArgsCode(args, i - 1, j)

\* The arguments whose genCode throws.
Throwing(args) == {i \in 1..Len(args) : genCode(args[i], << >>).threw # "none"}

Max(S) == CHOOSE x \in S : \A y \in S : y <= x

C6_FuncCallEmitsArgsInReverse ==
    \A n \in LastBuilt :
        n.kind = "FuncCallNode" =>
            LET k == Len(n.args_)
                all == genCode(n, code_stack)
                own == SubSeq(all.code_stack, Len(all.code_stack) - 2, Len(all.code_stack))
            IN IF Throwing(n.args_) = {}
               THEN /\ all.threw = "none"
                    /\ Len(all.code_stack) = Len(code_stack) + Len(ArgsCode(n.args_, k, 1)) + 3
                    /\ SubSeq(all.code_stack, 1, Len(all.code_stack) - 3)
                           = code_stack \o ArgsCode(n.args_, k, 1)
                    /\ own[1].instruction_ = ArgCountOperand(k)
                    /\ own[2].instruction_ = FunctionOperand(n.func_)
                    /\ own[3].instruction_ = Instruction("CALL")
               ELSE /\ all.threw = genCode(n.args_[Max(Throwing(n.args_))], << >>).threw
                    /\ all.code_stack
                           = code_stack \o ArgsCode(n.args_, k, Max(Throwing(n.args_)))

\* A call with two arguments, the attribute name and the constant 2, has been
\* compiled: the code of the second argument comes first.
C6_Witness ==
    /\ phase = "generated"
    /\ \E n \in LastBuilt : n.kind = "FuncCallNode" /\ Len(n.args_) = 2
    /\ code_stack = << CodeAndSourceLocation(FloatOperand(2), 1),
                       CodeAndSourceLocation(StringOperand("name"), NoSourceLocation),
                       CodeAndSourceLocation(Instruction("AREF"), 0),
                       CodeAndSourceLocation(ArgCountOperand(2), NoSourceLocation),
                       CodeAndSourceLocation(FunctionOperand("LN"), NoSourceLocation),
                       CodeAndSourceLocation(Instruction("CALL"), 2) >>

(***************************************************************************)
(* C7 as stated: for an IdentNode with a default subtree D, genCode        *)
(* appends the code D's own genCode produces, then a push of the attribute *)
(* name, then AREF2; without a default it appends a push of the attribute  *)
(* name, then AREF.                                                        *)
(***************************************************************************)
C7_Original_IdentEmitsDefaultCode ==
    \A n \in LastBuilt :
        /\ n.kind = "IdentNode"
        /\ n.default_value_ # nullptr => genCode(n.default_value_, << >>).threw = "none"
        =>  LET all == genCode(n, code_stack)
                default == IF n.default_value_ = nullptr THEN << >> ELSE Code(n.default_value_)
                aref == IF n.default_value_ = nullptr THEN "AREF" ELSE "AREF2"
            IN /\ all.threw = "none"
               /\ Len(all.code_stack) = Len(code_stack) + Len(default) + 2
               /\ SubSeq(all.code_stack, 1, Len(all.code_stack) - 2) = code_stack \o default
               /\ all.code_stack[Len(all.code_stack) - 1].instruction_
                      = StringOperand(n.attrib_name_)
               /\ LastEntry(all.code_stack).instruction_ = Instruction(aref)

(***************************************************************************)
(* C8: a conversion to STRING can be constructed exactly when the          *)
(* convertee is not null and has the type FLOAT, INT or BOOLEAN, a         *)
(* conversion to FLOAT exactly when it is not null and has the type INT,   *)
(* BOOLEAN or STRING.  The type of a conversion node is its target type,   *)
(* and its genCode appends the convertee's code followed by the one opcode *)
(* of the convertee's type, never throwing its unknown-type error.         *)
(***************************************************************************)
ConversionOpcode(kind, type) ==
    IF kind = "SConvNode"
    THEN CASE type = "FLOAT_NODE" -> "SCONVF"
           [] type = "INT_NODE" -> "SCONVI"
           [] type = "BOOLEAN_NODE" -> "SCONVB"
           [] OTHER -> "none"
    ELSE CASE type = "INT_NODE" -> "FCONVI"
           [] type = "BOOLEAN_NODE" -> "FCONVB"
           [] type = "STRING_NODE" -> "FCONVS"
           [] OTHER -> "none"

C8_ConversionTable ==
    /\ ctor.class = "SConvNode" =>
          /\ ctor.threw = "none" <=> ctor.convertee \in {"FLOAT_NODE", "INT_NODE", "BOOLEAN_NODE"}
          /\ ctor.threw # "none" => phase = "failed" /\ nodes = << >>
    /\ ctor.class = "FConvNode" =>
          /\ ctor.threw = "none" <=> ctor.convertee \in {"INT_NODE", "BOOLEAN_NODE", "STRING_NODE"}
          /\ ctor.threw # "none" => phase = "failed" /\ nodes = << >>
    /\ \A n \in LastBuilt :
          n.kind \in {"SConvNode", "FConvNode"} =>
              LET convertee == genCode(n.convertee_, code_stack)
                  all == genCode(n, code_stack)
              IN /\ getType(n) = IF n.kind = "SConvNode" THEN "STRING_NODE" ELSE "FLOAT_NODE"
                 /\ IF convertee.threw # "none" THEN all = convertee
                    ELSE /\ all.threw = "none"
                         /\ AllButLast(all.code_stack) = code_stack \o Code(n.convertee_)
                         /\ LastEntry(all.code_stack).instruction_
                                = Instruction(ConversionOpcode(n.kind, getType(n.convertee_)))
                         /\ ConversionOpcode(n.kind, getType(n.convertee_)) \in Instructions

\* The conversion of an INT attribute to a string has been compiled.
C8_Witness ==
    /\ phase = "generated"
    /\ \E n \in LastBuilt : n.kind = "SConvNode" /\ getType(n.convertee_) = "INT_NODE"
    /\ code_stack = << CodeAndSourceLocation(StringOperand("name"), NoSourceLocation),
                       CodeAndSourceLocation(Instruction("AREF"), 0),
                       CodeAndSourceLocation(Instruction("SCONVI"), NoSourceLocation) >>

(***************************************************************************)
(* The entries n->genCode appends itself: those that follow the code of    *)
(* the nodes whose genCode it calls.                                       *)
(***************************************************************************)
\* The nodes whose genCode n->genCode calls, in the order of the calls.
Callees(n) ==
    CASE n.kind = "BinOpNode" -> << n.rhs_, n.lhs_ >>
      [] n.kind = "UnaryOpNode" -> << n.operand_ >>
      [] n.kind \in {"SConvNode", "FConvNode"} -> << n.convertee_ >>
      [] n.kind = "FuncCallNode" -> [i \in 1..Len(n.args_) |-> n.args_[Len(n.args_) - i + 1]]
      [] OTHER -> << >>

OwnEntries(n) ==
    LET callees == Callees(n) IN
    SubSeq(Code(n), Len(ArgsCode(callees, Len(callees), 1)) + 1, Len(Code(n)))

IsConversion(n) == n.kind \in {"SConvNode", "FConvNode"}

(***************************************************************************)
(* C9 as stated: every entry genCode appends carries the source location   *)
(* of the node that emitted it, and -1 if that node is a conversion.       *)
(***************************************************************************)
C9_Original_EveryEntryCarriesNodeLocation ==
    \A n \in LastBuilt :
        genCode(n, << >>).threw = "none" =>
            \A i \in 1..Len(OwnEntries(n)) :
                OwnEntries(n)[i].source_location_
                    = IF IsConversion(n) THEN NoSourceLocation ELSE getSourceLocation(n)

(***************************************************************************)
(* C9 as amended: the last entry a node's genCode appends, which is its    *)
(* instruction or, for a constant, the push of its value, carries the      *)
(* source location of the node, -1 for a conversion node; the operand      *)
(* entries before it, which FuncCallNode (argument count, function) and    *)
(* IdentNode (default value, attribute name) push, carry -1.               *)
(***************************************************************************)
C9_InstructionCarriesNodeLocation ==
    \A n \in LastBuilt :
        genCode(n, << >>).threw = "none" =>
            LET own == OwnEntries(n) IN
            /\ Len(own) >= 1
            /\ LastEntry(own).source_location_ = getSourceLocation(n)
            /\ IsConversion(n) <=> getSourceLocation(n) = NoSourceLocation
            /\ \/ IsInstruction(LastEntry(own))
               \/ n.kind \in {"BooleanConstantNode", "FloatConstantNode", "StringConstantNode"}
            /\ \A i \in 1..(Len(own) - 1) :
                   /\ own[i].source_location_ = NoSourceLocation
                   /\ ~IsInstruction(own[i])
                   /\ n.kind \in {"FuncCallNode", "IdentNode"}
            /\ phase = "generated" =>
                   /\ LastEntry(code_stack) = LastEntry(own)
                   /\ own = SubSeq(code_stack, Len(code_stack) - Len(own) + 1, Len(code_stack))

\* LN(2) has been compiled: the push of 2 carries the constant's location,
\* CALL the call's, the argument count and the function carry -1.
C9_Witness ==
    /\ phase = "generated"
    /\ code_stack = << CodeAndSourceLocation(FloatOperand(2), 0),
                       CodeAndSourceLocation(ArgCountOperand(1), NoSourceLocation),
                       CodeAndSourceLocation(FunctionOperand("LN"), NoSourceLocation),
                       CodeAndSourceLocation(Instruction("CALL"), 1) >>

(***************************************************************************)
(* C10: the IdentNode constructor throws, and no node is built, exactly    *)
(* when the declared type is NULL_NODE or a default value is given whose   *)
(* type is not the declared type; it builds the node when the declared     *)
(* type is one of the four value types and the default is absent or has    *)
(* the declared type.                                                      *)
(***************************************************************************)
C10_IdentConstructorRejects ==
    /\ ctor.class = "IdentNode" =>
          /\ ctor.threw # "none" <=>
                 \/ ctor.type = "NULL_NODE"
                 \/ ctor.default_value # "nullptr" /\ ctor.default_value # ctor.type
          /\ ctor.threw = "none" <=>
                 /\ ctor.type \in ValueTypes
                 /\ ctor.default_value \in {"nullptr", ctor.type}
          /\ ctor.threw # "none" =>
                 ctor.threw = "invalid_argument" /\ phase = "failed" /\ nodes = << >>
    /\ \A n \in LastBuilt :
          n.kind = "IdentNode" =>
              /\ getType(n) \in ValueTypes
              /\ n.default_value_ # nullptr => getType(n.default_value_) = getType(n)
              /\ ctor.class = "IdentNode" =>
                     /\ ctor.threw = "none"
                     /\ getType(n) = ctor.type
                     /\ Operand(n.default_value_) = ctor.default_value

\* A STRING default for an attribute declared FLOAT has been rejected.
C10_Witness ==
    /\ phase = "failed"
    /\ ctor = [class |-> "IdentNode", default_value |-> "STRING_NODE", type |-> "FLOAT_NODE",
               threw |-> "invalid_argument"]

(***************************************************************************)
(* class Tokenizer (NyaaTokenizer.h, NyaaTokenizer.cc).                    *)
(*                                                                         *)
(* A std::string is the sequence of its characters, each a one-character   *)
(* string.  A std::string::const_iterator into source_ is the record       *)
(* [offset |-> i] of its distance i from source_.cbegin(), so that         *)
(* source_.cend() is the offset Len(source_); a default-constructed        *)
(* iterator is the record singular.  A data member of scalar type that no  *)
(* constructor initialises holds the record indeterminate, and a value x   *)
(* that was assigned is Value(x).                                          *)
(***************************************************************************)
MaxLen == 2
MaxCalls == 4

At(i) == [offset |-> i]
singular == [singular |-> TRUE]
Value(x) == [value |-> x]
indeterminate == [indeterminate |-> TRUE]

\* <cctype> in the "C" locale.
Digits == <<"0", "1", "2", "3", "4", "5", "6", "7", "8", "9">>
LowerCase == <<"a", "b", "c", "d", "e", "f", "g", "h", "i", "j", "k", "l", "m",
               "n", "o", "p", "q", "r", "s", "t", "u", "v", "w", "x", "y", "z">>
UpperCase == <<"A", "B", "C", "D", "E", "F", "G", "H", "I", "J", "K", "L", "M",
               "N", "O", "P", "Q", "R", "S", "T", "U", "V", "W", "X", "Y", "Z">>
Range(f) == {f[i] : i \in DOMAIN f}
isspace(c) == c \in {" ", "\t", "\n", "\r", "\f"}
isdigit(c) == c \in Range(Digits)
isalpha(c) == c \in Range(LowerCase) \cup Range(UpperCase)
toupper(c) ==
    IF c \in Range(LowerCase)
    THEN UpperCase[CHOOSE i \in DOMAIN LowerCase : LowerCase[i] = c]
    ELSE c

\* ::strcasecmp(a, b) == 0
strcasecmp_equal(a, b) ==
    /\ Len(a) = Len(b)
    /\ \A i \in 1..Len(a) : toupper(a[i]) = toupper(b[i])

\* The characters of text from offset first up to, not including, offset last.
Text(text, first, last) == SubSeq(text, first + 1, last)

\* while (ch != end and std::isdigit(*ch)) ++ch;  the offset the loop stops at.
RECURSIVE scanDigits(_, _)
scanDigits(text, ch) ==
    IF ch # Len(text) /\ isdigit(text[ch + 1]) THEN scanDigits(text, ch + 1) ELSE ch

\* The number a run of decimal digits denotes, 0 for the empty run.
RECURSIVE DigitsValue(_)
DigitsValue(digits) ==
    IF digits = << >> THEN 0
    ELSE 10 * DigitsValue(SubSeq(digits, 1, Len(digits) - 1))
         + (CHOOSE d \in 0..9 : Digits[d + 1] = digits[Len(digits)])

\* A double as mantissa * 10^exponent with a mantissa that is no multiple of
\* ten, and 0 as mantissa 0, exponent 0: equal numbers are equal records.
RECURSIVE Double(_, _)
Double(mantissa, exponent) ==
    IF mantissa = 0 THEN [mantissa |-> 0, exponent |-> 0]
    ELSE IF mantissa % 10 = 0 THEN Double(mantissa \div 10, exponent + 1)
    ELSE [mantissa |-> mantissa, exponent |-> exponent]

\* std::sscanf(number, "%lf", &value) for a text of digits, '.', 'e', 'E', '+'
\* and '-' that starts with no sign: the conversion reads the longest prefix
\* that is a decimal floating-point number (digits with an optional '.',
\* at least one digit in all, then an exponent if it is complete).  count is
\* the value sscanf returns: 1, 0 when no prefix is a number, and EOF (-1)
\* when the text is empty; read is the length of the prefix.
sscanf_lf(number) ==
    LET n == Len(number)
        int_end == scanDigits(number, 0)
        has_point == int_end # n /\ number[int_end + 1] = "."
        frac_end == IF has_point THEN scanDigits(number, int_end + 1) ELSE int_end
        int_digits == Text(number, 0, int_end)
        frac_digits == IF has_point THEN Text(number, int_end + 1, frac_end) ELSE << >>
        has_e == frac_end # n /\ number[frac_end + 1] \in {"e", "E"}
        sign_at == frac_end + 1
        has_sign == has_e /\ sign_at # n /\ number[sign_at + 1] \in {"+", "-"}
        exp_at == IF has_sign THEN sign_at + 1 ELSE sign_at
        exp_end == IF has_e /\ exp_at <= n THEN scanDigits(number, exp_at) ELSE exp_at
        has_exp == has_e /\ exp_end > exp_at
        exp_value == IF has_exp THEN DigitsValue(Text(number, exp_at, exp_end)) ELSE 0
        exponent == IF has_sign /\ number[sign_at + 1] = "-" THEN 0 - exp_value ELSE exp_value
    IN  IF n = 0 THEN [count |-> -1, read |-> 0]
        ELSE IF int_digits \o frac_digits = << >> THEN [count |-> 0, read |-> 0]
        ELSE [count |-> 1,
              read |-> IF has_exp THEN exp_end ELSE frac_end,
              value |-> Double(DigitsValue(int_digits \o frac_digits),
                               exponent - Len(frac_digits))]

\* NULL_TOKEN, the "no token" value of the pushback slot.
NULL_TOKEN == Token("NULL_TOKEN", NO_STRING_REP, "NONE")

\* The namespace-scope constant of the given type.
TokenOf(token_type) == CHOOSE token \in Tokens : getTokenType(token) = token_type

\* Tokenizer::Tokenizer(source): the members of the initialiser list, the
\* std::string members empty, the iterators not named there singular, the
\* scalars not named there indeterminate.  current_pos_ is size_t(-1).
Tokenizer(source) ==
    [source_ |-> source,
     previous_token_ |-> NULL_TOKEN,
     current_pos_ |-> Value(-1),
     previous_current_pos_ |-> indeterminate,
     identifier_in_braces_ |-> Value(FALSE),
     previous_identifier_in_braces_ |-> indeterminate,
     ch_ |-> At(0),
     previous_ch_ |-> singular,
     token_start_pos_ |-> singular,
     previous_token_start_pos_ |-> singular,
     string_constant_ |-> << >>,
     previous_string_constant_ |-> << >>,
     float_constant_ |-> indeterminate,
     previous_float_constant_ |-> indeterminate,
     boolean_constant_ |-> indeterminate,
     previous_boolean_constant_ |-> indeterminate,
     int_constant_ |-> indeterminate,
     previous_int_constant_ |-> indeterminate,
     identifier_ |-> << >>,
     previous_identifier_ |-> << >>,
     error_msg_ |-> << >>]

cend(t) == Len(t.source_)

\* The accessors.
getStringConstant(t) == t.string_constant_
getFloatConstant(t) == t.float_constant_
getBooleanConstant(t) == t.boolean_constant_
getIdent(t) == t.identifier_
getErrMsg(t) == t.error_msg_

\* getStartPos(): the distance of token_start_pos_ from the start of the
\* source; no number when token_start_pos_ is singular.
getStartPos(t) ==
    IF t.token_start_pos_ = singular THEN indeterminate
    ELSE Value(t.token_start_pos_.offset)

\* What a call of a member function of the Tokenizer does: it returns a token
\* and leaves the object in a state, or its behaviour is undefined (it moved
\* an iterator before source_.cbegin(), dereferenced source_.cend(), or used
\* a singular iterator or an indeterminate value).
Result(token_type, t) == [undefined |-> FALSE, token |-> TokenOf(token_type), tokenizer |-> t]
Undefined == [undefined |-> TRUE]

\* The call returns with ch_ at the offset ch, unless that is before the
\* start of the source.
ResultAt(token_type, t, ch) ==
    IF ch < 0 THEN Undefined ELSE Result(token_type, [t EXCEPT !.ch_ = At(ch)])

\* Tokenizer::parseStringConstant: the loop, entered with ch_ where getToken
\* left it.
RECURSIVE parseStringConstant_loop(_, _)
parseStringConstant_loop(t, escaped) ==
    LET ch == t.ch_.offset
        c == t.source_[ch + 1]
        next == [t EXCEPT !.ch_ = At(ch + 1)]
        Appended(x) == [next EXCEPT !.string_constant_ = Append(t.string_constant_, x)]
    IN  IF ch = cend(t)
        THEN Result("ERROR", [t EXCEPT !.error_msg_ = <<"unterminated String constant.">>])
        ELSE IF c = "\\" THEN parseStringConstant_loop(next, TRUE)
        ELSE IF escaped THEN
            CASE c = "\\" -> parseStringConstant_loop(Appended("\\"), FALSE)
              [] c = "\"" -> parseStringConstant_loop(Appended("\""), FALSE)
              [] c = "n" -> parseStringConstant_loop(Appended("\n"), FALSE)
              [] OTHER ->
                  Result("ERROR",
                         [t EXCEPT !.error_msg_ = <<"unknown escape character '", c, "'.">>])
        ELSE IF c = "\"" THEN Result("STRING_CONSTANT", t)
        ELSE parseStringConstant_loop(Appended(c), FALSE)

parseStringConstant(t) ==
    parseStringConstant_loop([t EXCEPT !.string_constant_ = << >>], FALSE)

\* Tokenizer::parseNumericConstant from the label "convert" on, with ch_ at
\* the offset ch and the text number collected.
convert(t, ch, number) ==
    LET scanned == sscanf_lf(number) IN
    IF ch < 0 THEN Undefined
    ELSE IF scanned.count # 1
    THEN ResultAt("ERROR", [t EXCEPT !.error_msg_ = <<"invalid numeric constant.">>], ch)
    ELSE ResultAt("FLOAT_CONSTANT",
                  [t EXCEPT !.float_constant_ = Value(scanned.value)],
                  IF ch # cend(t) THEN ch - 1 ELSE ch)

\* Tokenizer::parseNumericConstant, entered with ch_ where getToken left it.
parseNumericConstant(t) ==
    LET s == t.source_
        start == t.ch_.offset
        \* the leading digits
        int_end == scanDigits(s, start)
        number1 == Text(s, start, int_end)
        \* the optional decimal point and the digits after it
        has_point == s[int_end + 1] = "."
        frac_end == IF has_point THEN scanDigits(s, int_end + 1) ELSE int_end
        number2 == number1 \o Text(s, int_end, frac_end)
        \* the 'e' or 'E', then the optional sign
        e_end == frac_end + 1
        has_sign == s[e_end + 1] \in {"+", "-"}
        sign_end == IF has_sign THEN e_end + 1 ELSE e_end
        number3 == number2 \o Text(s, frac_end, sign_end)
        \* --ch_, then the loop over the digits of the exponent
        exp_start == sign_end - 1
        exp_end == scanDigits(s, exp_start)
        number4 == number3 \o Text(s, exp_start, exp_end)
    IN  IF int_end = cend(t) \/ s[int_end + 1] \notin {"e", "E", "."}
        THEN convert(t, int_end, number1)
        ELSE IF frac_end = cend(t) THEN Undefined
        ELSE IF s[frac_end + 1] \notin {"e", "E"} THEN convert(t, frac_end - 1, number2)
        ELSE IF e_end = cend(t)
        THEN ResultAt("ERROR", [t EXCEPT !.error_msg_ = <<"invalid numeric constant.">>], e_end)
        ELSE IF sign_end = cend(t) THEN Undefined
        ELSE IF ~isdigit(s[sign_end + 1])
        THEN ResultAt("ERROR", [t EXCEPT !.error_msg_ = <<"missing digits in exponent.">>],
                      sign_end)
        ELSE convert(t, exp_end - 1, number4)

\* The end of parseIdentifier and of parseSimpleIdentifier: --ch_, then the
\* comparison of the text with TRUE and FALSE.
keywordOrIdentifier(t, ch, identifier) ==
    IF strcasecmp_equal(identifier, <<"T", "R", "U", "E">>)
    THEN ResultAt("BOOLEAN_CONSTANT", [t EXCEPT !.boolean_constant_ = Value(TRUE)], ch - 1)
    ELSE IF strcasecmp_equal(identifier, <<"F", "A", "L", "S", "E">>)
    THEN ResultAt("BOOLEAN_CONSTANT", [t EXCEPT !.boolean_constant_ = Value(FALSE)], ch - 1)
    ELSE ResultAt("IDENTIFIER", [t EXCEPT !.identifier_ = identifier], ch - 1)

\* The characters that end an attribute name in braces.
IdentifierDelimiters == {"}", ":", ",", "(", ")"}

\* Tokenizer::parseIdentifier, entered with ch_ at the offset ch.
RECURSIVE parseIdentifier_loop(_, _, _, _)
parseIdentifier_loop(t, ch, identifier, escaped) ==
    LET c == t.source_[ch + 1] IN
    IF ch # cend(t) /\ (c \notin IdentifierDelimiters \/ escaped)
    THEN IF escaped THEN parseIdentifier_loop(t, ch + 1, Append(identifier, c), FALSE)
         ELSE IF c = "\\" THEN parseIdentifier_loop(t, ch + 1, identifier, TRUE)
         ELSE parseIdentifier_loop(t, ch + 1, Append(identifier, c), FALSE)
    ELSE IF escaped
    THEN ResultAt("ERROR",
                  [t EXCEPT !.error_msg_ = <<"invalid column name at end of formula.">>], ch)
    ELSE keywordOrIdentifier(t, ch, identifier)

parseIdentifier(t) == parseIdentifier_loop(t, t.ch_.offset, << >>, FALSE)

\* Tokenizer::parseSimpleIdentifier, entered with ch_ at the offset ch.
RECURSIVE parseSimpleIdentifier_loop(_, _, _)
parseSimpleIdentifier_loop(t, ch, identifier) ==
    LET c == t.source_[ch + 1] IN
    IF ch # cend(t) /\ (isalpha(c) \/ isdigit(c) \/ c = "_")
    THEN parseSimpleIdentifier_loop(t, ch + 1, Append(identifier, c))
    ELSE keywordOrIdentifier(t, ch, identifier)

parseSimpleIdentifier(t) == parseSimpleIdentifier_loop(t, t.ch_.offset, << >>)

\* while (ch_ != source_.cend() and std::isspace(*ch_)) ++ch_;
RECURSIVE skipSpace(_, _)
skipSpace(text, ch) ==
    IF ch # Len(text) /\ isspace(text[ch + 1]) THEN skipSpace(text, ch + 1) ELSE ch

\* The characters that are a token by themselves.
Punctuation ==
    [c \in {":", "^", "{", "}", "(", ")", "+", "-", "/", "*", "=", "$", ",", "&"} |->
        CASE c = ":" -> "COLON"
          [] c = "^" -> "CARET"
          [] c = "{" -> "OPEN_BRACE"
          [] c = "}" -> "CLOSE_BRACE"
          [] c = "(" -> "OPEN_PAREN"
          [] c = ")" -> "CLOSE_PAREN"
          [] c = "+" -> "PLUS"
          [] c = "-" -> "MINUS"
          [] c = "/" -> "DIV"
          [] c = "*" -> "MUL"
          [] c = "=" -> "EQUAL"
          [] c = "$" -> "DOLLAR"
          [] c = "," -> "COMMA"
          [] c = "&" -> "AMPERSAND"]

\* Tokenizer::getToken when the pushback slot holds a token: the token leaves
\* the slot and every member changes places with its previous_ twin.
getToken_cached(t) ==
    [undefined |-> FALSE,
     token |-> t.previous_token_,
     tokenizer |->
        [t EXCEPT !.previous_token_ = NULL_TOKEN,
                  !.current_pos_ = t.previous_current_pos_,
                  !.previous_current_pos_ = t.current_pos_,
                  !.identifier_in_braces_ = t.previous_identifier_in_braces_,
                  !.previous_identifier_in_braces_ = t.identifier_in_braces_,
                  !.ch_ = t.previous_ch_,
                  !.previous_ch_ = t.ch_,
                  !.token_start_pos_ = t.previous_token_start_pos_,
                  !.previous_token_start_pos_ = t.token_start_pos_,
                  !.string_constant_ = t.previous_string_constant_,
                  !.previous_string_constant_ = t.string_constant_,
                  !.float_constant_ = t.previous_float_constant_,
                  !.previous_float_constant_ = t.float_constant_,
                  !.boolean_constant_ = t.previous_boolean_constant_,
                  !.previous_boolean_constant_ = t.boolean_constant_,
                  !.int_constant_ = t.previous_int_constant_,
                  !.previous_int_constant_ = t.int_constant_,
                  !.identifier_ = t.previous_identifier_,
                  !.previous_identifier_ = t.identifier_]]

\* Tokenizer::getToken when the slot is empty: the scan of the source from
\* ch_ on.
getToken_scan(t) ==
    LET s == t.source_
        start == skipSpace(s, t.ch_.offset)
        t1 == [t EXCEPT !.ch_ = At(start), !.token_start_pos_ = At(start)]
        c == s[start + 1]
        in_braces == t.identifier_in_braces_.value
        Braces(b) == [t1 EXCEPT !.identifier_in_braces_ = Value(b)]
    IN  IF t.ch_ = singular \/ t.identifier_in_braces_ = indeterminate THEN Undefined
        ELSE IF start = cend(t) THEN Result("EOS", t1)
        ELSE IF c \in DOMAIN Punctuation
        THEN Result(Punctuation[c],
                    CASE c = ":" -> Braces(FALSE)
                      [] c = "{" -> Braces(TRUE)
                      [] c = "}" -> Braces(FALSE)
                      [] OTHER -> t1)
        ELSE IF c = "\"" THEN parseStringConstant(t1)
        ELSE IF ~in_braces /\ (isdigit(c) \/ c = ".")
        THEN IF start = 0 THEN Undefined
             ELSE parseNumericConstant([t1 EXCEPT !.ch_ = At(start - 1)])
        ELSE IF c = "<"
        THEN IF start + 1 = cend(t) THEN ResultAt("LESS_THAN", t1, start + 1)
             ELSE IF s[start + 2] = ">" THEN ResultAt("NOT_EQUAL", t1, start + 1)
             ELSE IF s[start + 2] = "=" THEN ResultAt("LESS_OR_EQUAL", t1, start + 1)
             ELSE ResultAt("LESS_THAN", t1, start)
        ELSE IF c = ">"
        THEN IF start + 1 = cend(t) THEN ResultAt("GREATER_THAN", t1, start + 1)
             ELSE IF s[start + 2] = "=" THEN ResultAt("GREATER_OR_EQUAL", t1, start + 1)
             ELSE ResultAt("GREATER_THAN", t1, start)
        ELSE IF in_braces \/ isalpha(c)
        THEN IF start = 0 THEN Undefined
             ELSE IF in_braces THEN parseIdentifier([t1 EXCEPT !.ch_ = At(start - 1)])
             ELSE parseSimpleIdentifier([t1 EXCEPT !.ch_ = At(start - 1)])
        ELSE Result("ERROR",
                    [t1 EXCEPT !.error_msg_ = <<"unexpected input character '", c, "'">>])

\* Tokenizer::getToken
getToken(t) ==
    IF t.previous_token_ # NULL_TOKEN THEN getToken_cached(t) ELSE getToken_scan(t)

\* Tokenizer::ungetToken without the test of the pushback slot.
ungetToken_Overwrites(t, token) ==
    [threw |-> "none", tokenizer |-> [t EXCEPT !.previous_token_ = token]]

\* Tokenizer::ungetToken: the exception it throws, "none" if it returns, and
\* the state it leaves.
ungetToken(t, token) ==
    IF t.previous_token_ # NULL_TOKEN
    THEN [threw |-> "runtime_error", tokenizer |-> t]
    ELSE [threw |-> "none", tokenizer |-> [t EXCEPT !.previous_token_ = token]]

(***************************************************************************)
(* The Tokenizer and its caller.  One Tokenizer is constructed on a source *)
(* text; the caller then calls getToken and ungetToken in any order, at    *)
(* most MaxCalls times.  calls keeps what each call was given and what it  *)
(* gave back.  A call whose behaviour is undefined is the last one: it     *)
(* crashes or returns any token, and nothing is known of the object after  *)
(* it.                                                                     *)
(***************************************************************************)
\* All texts of at most MaxLen characters of Alphabet, and the texts of
\* Examples.
Alphabet == {" ", "1", "e", "\"", "<", ">", "+", "{"}

Examples == {
    <<"1", ".", "5", "e", "2">>,
    <<" ", "1", ".", "5", "e", "2">>,
    <<" ", "1", "e">>,
    <<" ", "+", "1">>,
    <<"{", "a", "\\", ":", "b", "}">>,
    <<"{", "a", "\\">>,
    <<"\"", "a", "\\", "n", "\"", "+">>,
    <<"\"", "\\", "x", "\"">>,
    <<"<", ">", "=">>,
    <<"<", "=", "1">>,
    <<" ", " ", "a", "b">>,
    <<" ", " ", "T", "r", "u", "e">>,
    <<"{", "f", "a", "l", "s", "e", "}">>,
    <<" ", "#">> }

Sources == UNION {[1..n -> Alphabet] : n \in 0..MaxLen} \cup Examples

\* The token the last getToken call returned, if there was one.
LastReturned ==
    {calls[i].token : i \in {j \in DOMAIN calls :
        /\ calls[j].op = "getToken"
        /\ \A k \in DOMAIN calls : k > j => calls[k].op # "getToken"}}

\* The caller pushes back the token the last getToken call returned, as a
\* parser that looks one token ahead does: ungetToken is called after a prior
\* call of getToken, as its declaration asks.
UngetTokens == LastReturned

\* The behaviour of a call made so far was undefined.
BehaviourUndefined == \E i \in DOMAIN calls : calls[i].op = "getToken" /\ calls[i].undefined

CanCall == Len(calls) < MaxCalls /\ ~BehaviourUndefined

TokenizerInit ==
    /\ nodes = << >>
    /\ location = 0
    /\ ctor = [class |-> "none", threw |-> "none"]
    /\ code_stack = << >>
    /\ gen_threw = "none"
    /\ phase = "parsing"
    /\ \E source \in Sources : tokenizer = Tokenizer(source)
    /\ calls = << >>

\* The record of a getToken call: the token returned, whether it came from
\* the pushback slot, and what getStartPos() returns after the call.
GetTokenCall(token, cached, start_pos) ==
    [op |-> "getToken", undefined |-> FALSE, crashed |-> FALSE,
     token |-> token, cached |-> cached, start_pos |-> start_pos]

\* The record of a getToken call with undefined behaviour.
UndefinedCall(token, crashed) ==
    [op |-> "getToken", undefined |-> TRUE, crashed |-> crashed,
     token |-> token, cached |-> FALSE, start_pos |-> indeterminate]

GetToken ==
    /\ CanCall
    /\ LET result == getToken(tokenizer) IN
        IF result.undefined
        THEN /\ \/ calls' = Append(calls, UndefinedCall(NULL_TOKEN, TRUE))
                \/ \E token \in Tokens : calls' = Append(calls, UndefinedCall(token, FALSE))
             /\ UNCHANGED tokenizer
        ELSE /\ tokenizer' = result.tokenizer
             /\ calls' = Append(calls, GetTokenCall(result.token,
                                                   tokenizer.previous_token_ # NULL_TOKEN,
                                                   getStartPos(result.tokenizer)))
    /\ UNCHANGED <<nodes, location, ctor, code_stack, gen_threw, phase>>

UngetToken ==
    /\ CanCall
    /\ \E token \in UngetTokens :
        LET result == ungetToken(tokenizer, token) IN
        /\ tokenizer' = result.tokenizer
        /\ calls' = Append(calls, [op |-> "ungetToken", token |-> token,
                                   threw |-> result.threw])
    /\ UNCHANGED <<nodes, location, ctor, code_stack, gen_threw, phase>>

TokenizerNext ==
    \/ GetToken
    \/ UngetToken

TokenizerSpec == TokenizerInit /\ [][TokenizerNext]_vars

(***************************************************************************)
(* Vocabulary of the properties of the Tokenizer.                          *)
(***************************************************************************)
\* The i-th call was getToken / ungetToken.
IsGetToken(i) == i \in DOMAIN calls /\ calls[i].op = "getToken"
IsUngetToken(i) == i \in DOMAIN calls /\ calls[i].op = "ungetToken"

\* The i-th call was a getToken call that returned the token of this type.
Returns(i, token_type) ==
    IsGetToken(i) /\ ~calls[i].crashed /\ calls[i].token = TokenOf(token_type)

\* The i-th call was an ungetToken call that returned / that threw.
Succeeded(i) == IsUngetToken(i) /\ calls[i].threw = "none"
Failed(i) == IsUngetToken(i) /\ calls[i].threw # "none"

\* The step is a call of getToken that scans the source and returns.
ScanningGetTokenStep ==
    /\ Len(calls') = Len(calls) + 1
    /\ calls'[Len(calls')].op = "getToken"
    /\ ~calls'[Len(calls')].undefined
    /\ ~calls'[Len(calls')].cached

\* The source the Tokenizer reads.
Source == tokenizer.source_

(***************************************************************************)
(* C11 (as stated): once a getToken call has returned EOS, the next        *)
(* getToken call, if no ungetToken call comes between the two, returns EOS *)
(* too; so does, by induction, every later one.                            *)
(***************************************************************************)
C11_Original_EOSIsFinal ==
    \A i \in DOMAIN calls :
        Returns(i, "EOS") /\ IsGetToken(i + 1) => Returns(i + 1, "EOS")

(***************************************************************************)
(* C12 (as stated): the loop "call getToken until it returns EOS" ends.    *)
(* getToken with an empty pushback slot is a function of the state of the  *)
(* Tokenizer, so a call that returns another token than EOS and ERROR and  *)
(* leaves the object as it found it is repeated by every later call, and   *)
(* the loop never ends.  The loop ends only if every scanning call that    *)
(* returns another token than EOS and ERROR changes the object.            *)
(***************************************************************************)
C12_Original_GetTokenLoopEnds ==
    [][ScanningGetTokenStep
          /\ calls'[Len(calls')].token \notin {TokenOf("EOS"), TokenOf("ERROR")}
       => tokenizer' # tokenizer]_vars

(***************************************************************************)
(* C13 (as stated): the getToken call after a successful ungetToken(t)     *)
(* returns t from the pushback slot, without scanning, and leaves the slot *)
(* empty; the getToken call after that one does not take a token from the  *)
(* slot: it scans the source and returns what the scan finds.              *)
(***************************************************************************)
C13_Original_PushedBackTokenReturnedOnce ==
    \A i \in DOMAIN calls :
        Succeeded(i) /\ IsGetToken(i + 1) =>
            /\ ~calls[i + 1].crashed
            /\ calls[i + 1].token = calls[i].token
            /\ calls[i + 1].cached
            /\ Len(calls) = i + 1 => tokenizer.previous_token_ = NULL_TOKEN
            /\ IsGetToken(i + 2) => ~calls[i + 2].cached /\ ~calls[i + 2].undefined

(***************************************************************************)
(* C14: when the pushback slot holds a token (an ungetToken call put it    *)
(* there and no getToken call took it), an ungetToken call throws          *)
(* runtime_error and leaves every member of the Tokenizer as it was, and   *)
(* the next getToken call returns the token of the first ungetToken call.  *)
(***************************************************************************)
C14_SecondUngetTokenFails ==
    /\ \A i \in DOMAIN calls :
        Succeeded(i) /\ IsUngetToken(i + 1) =>
            /\ Failed(i + 1)
            /\ calls[i + 1].threw = "runtime_error"
            /\ Returns(i + 2, calls[i].token.token_type_) \/ ~IsGetToken(i + 2)
    /\ calls # << >> /\ IsUngetToken(Len(calls)) /\ tokenizer.previous_token_ # NULL_TOKEN =>
        \A token \in Tokens :
            /\ ungetToken(tokenizer, token).threw = "runtime_error"
            /\ ungetToken(tokenizer, token).tokenizer = tokenizer
            /\ getToken(ungetToken(tokenizer, token).tokenizer).token
                  = tokenizer.previous_token_

\* "+": PLUS is returned and pushed back, a second ungetToken(PLUS) throws,
\* and getToken returns PLUS from the slot.
C14_Witness ==
    /\ Source = <<"+">>
    /\ Len(calls) = 4
    /\ Returns(1, "PLUS")
    /\ Succeeded(2) /\ calls[2].token = TokenOf("PLUS")
    /\ Failed(3) /\ calls[3].token = TokenOf("PLUS")
    /\ Returns(4, "PLUS") /\ calls[4].cached

(***************************************************************************)
(* C15 (as stated), for the calls whose token has a known first character: *)
(* after the first getToken call getStartPos() is the index of the first   *)
(* character of the source that is no blank (the length of the source when *)
(* there is none), and after a getToken call that returns again the token  *)
(* the call before last returned, pushed back in between, getStartPos() is *)
(* what it was after that call.                                            *)
(***************************************************************************)
C15_Original_StartOffsetOfReturnedToken ==
    /\ IsGetToken(1) /\ ~calls[1].undefined =>
        calls[1].start_pos = Value(skipSpace(Source, 0))
    /\ \A i \in DOMAIN calls :
        /\ IsGetToken(i) /\ ~calls[i].undefined
        /\ Succeeded(i + 1) /\ calls[i + 1].token = calls[i].token
        /\ IsGetToken(i + 2)
        => calls[i + 2].start_pos = calls[i].start_pos

(***************************************************************************)
(* The lexical rules as the properties state them, for the first token of  *)
(* a source: FirstChar is the offset of its first character.               *)
(***************************************************************************)
FirstChar == skipSpace(Source, 0)
StartsWith(c) == FirstChar < Len(Source) /\ Source[FirstChar + 1] = c

\* The string constant whose body starts at offset i of text: its body with
\* the escapes replaced and the offset after its closing quote, or the fault.
RECURSIVE StringLiteral(_, _, _)
StringLiteral(text, i, body) ==
    IF i >= Len(text) THEN [kind |-> "unterminated"]
    ELSE IF text[i + 1] = "\"" THEN [kind |-> "string", body |-> body, end |-> i + 1]
    ELSE IF text[i + 1] # "\\" THEN StringLiteral(text, i + 1, Append(body, text[i + 1]))
    ELSE IF i + 1 >= Len(text) THEN [kind |-> "unterminated"]
    ELSE IF text[i + 2] = "\\" THEN StringLiteral(text, i + 2, Append(body, "\\"))
    ELSE IF text[i + 2] = "\"" THEN StringLiteral(text, i + 2, Append(body, "\""))
    ELSE IF text[i + 2] = "n" THEN StringLiteral(text, i + 2, Append(body, "\n"))
    ELSE [kind |-> "unknown escape"]

\* The numeric literal at offset i of text: digits, an optional '.' with
\* digits, an optional exponent of 'e' or 'E', an optional sign and at least
\* one digit.  Its text and the offset after it, or the fault.
NumericLiteral(text, i) ==
    LET n == Len(text)
        int_end == scanDigits(text, i)
        has_point == int_end < n /\ text[int_end + 1] = "."
        frac_end == IF has_point THEN scanDigits(text, int_end + 1) ELSE int_end
        has_e == frac_end < n /\ text[frac_end + 1] \in {"e", "E"}
        has_sign == has_e /\ frac_end + 1 < n /\ text[frac_end + 2] \in {"+", "-"}
        exp_at == IF has_sign THEN frac_end + 2 ELSE frac_end + 1
        exp_end == IF has_e /\ exp_at <= n THEN scanDigits(text, exp_at) ELSE exp_at
        end == IF has_e THEN exp_end ELSE frac_end
    IN  IF int_end = i THEN [kind |-> "none"]
        ELSE IF has_e /\ exp_end = exp_at THEN [kind |-> "exponent with no digit"]
        ELSE [kind |-> "number", text |-> Text(text, i, end), end |-> end]

\* The attribute name in braces that starts at offset i of text: the name
\* with the escaping backslashes removed and the offset of the character
\* that ends it, or the fault.
RECURSIVE BraceIdentifier(_, _, _)
BraceIdentifier(text, i, name) ==
    IF i >= Len(text) THEN [kind |-> "identifier", name |-> name, end |-> i]
    ELSE IF text[i + 1] \in IdentifierDelimiters
    THEN [kind |-> "identifier", name |-> name, end |-> i]
    ELSE IF text[i + 1] # "\\" THEN BraceIdentifier(text, i + 1, Append(name, text[i + 1]))
    ELSE IF i + 1 >= Len(text) THEN [kind |-> "unfinished escape"]
    ELSE BraceIdentifier(text, i + 2, Append(name, text[i + 2]))

\* The first token of the source is a lexical fault.
FirstTokenIsFault ==
    /\ FirstChar < Len(Source)
    /\ LET c == Source[FirstChar + 1] IN
        \/ /\ c = "\""
           /\ StringLiteral(Source, FirstChar + 1, << >>).kind
                 \in {"unknown escape", "unterminated"}
        \/ /\ isdigit(c)
           /\ NumericLiteral(Source, FirstChar).kind = "exponent with no digit"
        \/ /\ c \notin DOMAIN Punctuation \cup {"\"", ".", "<", ">"}
           /\ ~isdigit(c)
           /\ ~isalpha(c)

\* The i-th call was a getToken call that scanned the source and found its
\* token at the first character at or after offset from that is no blank.
ScansFrom(i, from) ==
    IsGetToken(i) /\ ~calls[i].cached /\ calls[i].start_pos = Value(skipSpace(Source, from))

(***************************************************************************)
(* C16 (as stated): getToken returns ERROR, with a message that is not     *)
(* empty, and does not throw, when the first token of the source is a      *)
(* string constant with an unknown escape character or with no closing     *)
(* quote, a number whose exponent has no digit, or a character that starts *)
(* no token.  So does the getToken call after the one that returned        *)
(* OPEN_BRACE when the name in braces ends in an unfinished escape.        *)
(***************************************************************************)
C16_Original_FaultGivesErrorToken ==
    /\ FirstTokenIsFault /\ IsGetToken(1) =>
        /\ Returns(1, "ERROR")
        /\ Len(calls) = 1 => getErrMsg(tokenizer) # << >>
    /\ /\ StartsWith("{")
       /\ BraceIdentifier(Source, FirstChar + 1, << >>).kind = "unfinished escape"
       /\ IsGetToken(1) /\ IsGetToken(2)
       => /\ Returns(2, "ERROR")
          /\ Len(calls) = 2 => getErrMsg(tokenizer) # << >>

(***************************************************************************)
(* C17 (as stated): when the first token of the source is a string         *)
(* constant, getToken returns STRING_CONSTANT, getStringConstant() is the  *)
(* body with each escape replaced, and the token reaches to the closing    *)
(* quote: the next getToken call scans from the character after it.        *)
(***************************************************************************)
C17_Original_StringConstantDecoded ==
    LET literal == StringLiteral(Source, FirstChar + 1, << >>) IN
    StartsWith("\"") /\ literal.kind = "string" /\ IsGetToken(1) =>
        /\ Returns(1, "STRING_CONSTANT")
        /\ Len(calls) = 1 => getStringConstant(tokenizer) = literal.body
        /\ IsGetToken(2) => ScansFrom(2, literal.end)

(***************************************************************************)
(* C18 (as stated): when the source starts with <>, <= or >=, getToken     *)
(* returns NOT_EQUAL, LESS_OR_EQUAL or GREATER_OR_EQUAL and the next call  *)
(* scans from the character after the two; when it starts with another <   *)
(* or >, getToken returns LESS_THAN or GREATER_THAN and the next call      *)
(* scans from the character after that one.                                *)
(***************************************************************************)
C18_Original_ComparisonOperatorsGreedy ==
    LET first == Source[FirstChar + 1]
        second == IF FirstChar + 1 < Len(Source) THEN Source[FirstChar + 2] ELSE "end"
        operator ==
            CASE first = "<" /\ second = ">" -> "NOT_EQUAL"
              [] first = "<" /\ second = "=" -> "LESS_OR_EQUAL"
              [] first = ">" /\ second = "=" -> "GREATER_OR_EQUAL"
              [] first = "<" -> "LESS_THAN"
              [] OTHER -> "GREATER_THAN"
        length == IF operator \in {"LESS_THAN", "GREATER_THAN"} THEN 1 ELSE 2
    IN  (StartsWith("<") \/ StartsWith(">")) /\ IsGetToken(1) =>
            /\ Returns(1, operator)
            /\ IsGetToken(2) => ScansFrom(2, FirstChar + length)

(***************************************************************************)
(* C19 (as stated): when the first token of the source is a numeric        *)
(* literal, getToken returns FLOAT_CONSTANT, getFloatConstant() is the     *)
(* value of the whole text of the literal, and the next getToken call      *)
(* scans from the character after the literal.                             *)
(***************************************************************************)
C19_Original_NumericLiteralConverted ==
    LET literal == NumericLiteral(Source, FirstChar) IN
    literal.kind = "number" /\ IsGetToken(1) =>
        /\ Returns(1, "FLOAT_CONSTANT")
        /\ Len(calls) = 1 => getFloatConstant(tokenizer) = Value(sscanf_lf(literal.text).value)
        /\ IsGetToken(2) => ScansFrom(2, literal.end)

(***************************************************************************)
(* C20 (as stated): when the source starts with '{' and a name that a      *)
(* '}', ':', ',', '(' or ')' ends, the getToken call after the one that    *)
(* returned OPEN_BRACE returns IDENTIFIER, getIdent() is the name with the *)
(* escaping backslashes removed, and the call after it returns the token   *)
(* of the character that ended the name.                                   *)
(***************************************************************************)
C20_Original_BraceIdentifierDecoded ==
    LET name == BraceIdentifier(Source, FirstChar + 1, << >>) IN
    /\ StartsWith("{")
    /\ name.kind = "identifier" /\ name.end < Len(Source) /\ name.name # << >>
    /\ ~strcasecmp_equal(name.name, <<"T", "R", "U", "E">>)
    /\ ~strcasecmp_equal(name.name, <<"F", "A", "L", "S", "E">>)
    /\ IsGetToken(1) /\ IsGetToken(2)
    => /\ Returns(1, "OPEN_BRACE")
       /\ Returns(2, "IDENTIFIER")
       /\ Len(calls) = 2 => getIdent(tokenizer) = name.name
       /\ IsGetToken(3) => Returns(3, Punctuation[Source[name.end + 1]])

(***************************************************************************)
(* Vocabulary of C21.                                                      *)
(***************************************************************************)
\* The tree n contains no SConvNode and no FConvNode.
RECURSIVE NoConversion(_)
NoConversion(n) ==
    CASE n.kind = "nullptr" -> TRUE
      [] n.kind = "BinOpNode" -> NoConversion(n.lhs_) /\ NoConversion(n.rhs_)
      [] n.kind = "UnaryOpNode" -> NoConversion(n.operand_)
      [] n.kind \in {"SConvNode", "FConvNode"} -> FALSE
      [] n.kind = "IdentNode" -> NoConversion(n.default_value_)
      [] n.kind = "FuncCallNode" -> \A i \in DOMAIN n.args_ : NoConversion(n.args_[i])
      [] OTHER -> TRUE

\* One entry for a binary, a unary and a literal node, three for a function
\* call, two for an attribute reference and one more for its default value,
\* into which genCode does not descend.
RECURSIVE EntryCount(_)
RECURSIVE ArgsEntryCount(_, _)
ArgsEntryCount(args, i) ==
    IF i < 1 THEN 0 ELSE EntryCount(args[i]) + ArgsEntryCount(args, i - 1)
EntryCount(n) ==
    CASE n.kind = "BinOpNode" -> 1 + EntryCount(n.lhs_) + EntryCount(n.rhs_)
      [] n.kind = "UnaryOpNode" -> 1 + EntryCount(n.operand_)
      [] n.kind = "FuncCallNode" -> 3 + ArgsEntryCount(n.args_, Len(n.args_))
      [] n.kind = "IdentNode" -> IF n.default_value_ = nullptr THEN 2 ELSE 3
      [] OTHER -> 1

\* The genCode call on n returns.
GenCodeReturns(n) == genCode(n, << >>).threw = "none"

(***************************************************************************)
(* C21 (as stated): a genCode call that returns, on a tree of N nodes      *)
(* without conversion nodes, appends exactly N entries.                    *)
(***************************************************************************)
C21_Original_OneEntryPerNode ==
    \A n \in LastBuilt :
        NoConversion(n) /\ GenCodeReturns(n) => Len(Code(n)) = TreeSize(n)

(***************************************************************************)
(* C21 (amended): a genCode call that returns, on a tree without           *)
(* conversion nodes, appends one entry for each binary, unary and literal  *)
(* node, three for each function-call node and two for each                *)
(* attribute-reference node, and for an attribute reference with a default *)
(* value one entry for the default and none for the nodes under it; so it  *)
(* appends exactly N entries for a tree of N binary, unary and literal     *)
(* nodes.                                                                  *)
(***************************************************************************)
C21_EntriesPerNodeKind ==
    \A n \in LastBuilt :
        NoConversion(n) /\ GenCodeReturns(n) =>
            /\ Len(Code(n)) = EntryCount(n)
            /\ (phase = "generated" /\ gen_threw = "none") => Len(code_stack) = EntryCount(n)

\* "-LN(2)": three nodes (the literal, the call, the negation) and five
\* entries: push 2, argument count, LN, CALL, FUMINUS.
C21_Witness ==
    /\ phase = "generated"
    /\ gen_threw = "none"
    /\ \E n \in LastBuilt :
        /\ n.kind = "UnaryOpNode"
        /\ n.operand_.kind = "FuncCallNode"
        /\ Len(n.operand_.args_) = 1
        /\ TreeSize(n) = 3
    /\ Len(code_stack) = 5
    /\ LastEntry(code_stack).instruction_ = Instruction("FUMINUS")

(***************************************************************************)
(* Vocabulary of C22.                                                      *)
(***************************************************************************)
\* The offset after the longest run of letters, digits and underscores that
\* starts at offset i of text.
RECURSIVE WordEnd(_, _)
WordEnd(text, i) ==
    IF i < Len(text) /\ (isalpha(text[i + 1]) \/ isdigit(text[i + 1]) \/ text[i + 1] = "_")
    THEN WordEnd(text, i + 1)
    ELSE i

IsTrue(text) == strcasecmp_equal(text, <<"T", "R", "U", "E">>)
IsFalse(text) == strcasecmp_equal(text, <<"F", "A", "L", "S", "E">>)

\* The i-th call was a getToken call that returned the token the rule for
\* TRUE and FALSE gives the text, and left the value that goes with it.
ReturnsWord(i, text) ==
    IF IsTrue(text) \/ IsFalse(text)
    THEN /\ Returns(i, "BOOLEAN_CONSTANT")
         /\ Len(calls) = i => getBooleanConstant(tokenizer) = Value(IsTrue(text))
    ELSE /\ Returns(i, "IDENTIFIER")
         /\ Len(calls) = i => getIdent(tokenizer) = text

(***************************************************************************)
(* C22 (as stated): when the first character of the source that is no      *)
(* blank is a letter, getToken returns BOOLEAN_CONSTANT, with the value    *)
(* true or false, if the longest run of letters, digits and underscores    *)
(* from that character on is TRUE or FALSE in any case, and else           *)
(* IDENTIFIER with that run as getIdent().  When the source starts with    *)
(* '{' and a name that is TRUE or FALSE in any case, the getToken call     *)
(* after the one that returned OPEN_BRACE returns BOOLEAN_CONSTANT with    *)
(* that value.                                                             *)
(***************************************************************************)
C22_Original_WordIsIdentifierOrBoolean ==
    /\ /\ FirstChar < Len(Source)
       /\ isalpha(Source[FirstChar + 1])
       /\ IsGetToken(1)
       => ReturnsWord(1, Text(Source, FirstChar, WordEnd(Source, FirstChar)))
    /\ LET name == BraceIdentifier(Source, FirstChar + 1, << >>) IN
       /\ StartsWith("{")
       /\ name.kind = "identifier" /\ (IsTrue(name.name) \/ IsFalse(name.name))
       /\ IsGetToken(1) /\ IsGetToken(2)
       => ReturnsWord(2, name.name)

(***************************************************************************)
(* Vocabulary of C23.                                                      *)
(***************************************************************************)
\* The Tokenizer right after the first getToken call on the source.
AfterFirstGetToken == getToken(Tokenizer(Source)).tokenizer

\* The caller called getToken, pushed the token it returned back, and called
\* getToken again.
PushedBackAndReadAgain ==
    /\ Len(calls) >= 3
    /\ IsGetToken(1) /\ ~calls[1].undefined
    /\ IsUngetToken(2) /\ calls[2].token = calls[1].token
    /\ IsGetToken(3)

\* The cursor, the brace-mode flag, the start of the token and the decoded
\* values of t are those of u.
SameLexerState(t, u) ==
    /\ t.ch_ = u.ch_
    /\ t.identifier_in_braces_ = u.identifier_in_braces_
    /\ t.token_start_pos_ = u.token_start_pos_
    /\ t.string_constant_ = u.string_constant_
    /\ t.float_constant_ = u.float_constant_
    /\ t.boolean_constant_ = u.boolean_constant_
    /\ t.int_constant_ = u.int_constant_
    /\ t.identifier_ = u.identifier_

(***************************************************************************)
(* C23 (as stated): after getToken returned t, ungetToken(t) and a second  *)
(* getToken, the second getToken has returned t and the cursor, the        *)
(* brace-mode flag, the start offset of the token and the decoded constant *)
(* and identifier values are those right after the first getToken; the     *)
(* getToken call that follows returns the token that a getToken call right *)
(* after the first one returns.                                            *)
(***************************************************************************)
C23_Original_PushBackIsTransparent ==
    PushedBackAndReadAgain =>
        /\ ~calls[3].undefined
        /\ calls[3].token = calls[1].token
        /\ Len(calls) = 3 => SameLexerState(tokenizer, AfterFirstGetToken)
        /\ Len(calls) >= 4 /\ IsGetToken(4) =>
              LET next == getToken(AfterFirstGetToken) IN
              /\ calls[4].undefined = next.undefined
              /\ ~next.undefined => calls[4].token = next.token

(***************************************************************************)
(* Vocabulary of C24.                                                      *)
(***************************************************************************)
\* The caller has called getToken only.
OnlyGetToken == \A i \in DOMAIN calls : IsGetToken(i)

\* The positions of the source: the offsets of its characters and its end.
Positions == {At(i) : i \in 0..Len(Source)}

(***************************************************************************)
(* C24 (as stated): as long as the caller calls getToken only, no call     *)
(* moves the cursor out of the source or reads a character outside it,     *)
(* which would be undefined behaviour, and the cursor is at an offset      *)
(* between 0 and the length of the source.                                 *)
(***************************************************************************)
C24_Original_CursorStaysInSource ==
    OnlyGetToken =>
        /\ \A i \in DOMAIN calls : ~calls[i].undefined
        /\ tokenizer.ch_ \in Positions

=============================================================================
